---- MODULE Spec2Model ----
(***************************************************************************)
(* Model of backend/utils/WebScraper.py: one WebScraper instance (the      *)
(* module-level `scraper` of routes.py), its browser handle, and the       *)
(* scrape_url / process_with_llm / extract_main_content / cleanup code.    *)
(*                                                                         *)
(* scrape_url is a coroutine.  Between two awaits it runs without          *)
(* interruption; `cur` names the caller that holds the event loop (0 when  *)
(* every caller is suspended at an await or outside a call).               *)
(***************************************************************************)
EXTENDS Integers, Sequences, FiniteSets, TLC

VARIABLES
    callers,      \* the tasks that call scrape_url / cleanup on the instance
    urls,         \* the URLs these tasks ask for
    browser,      \* self.browser: 0 is None, otherwise an index of sessions
    sessions,     \* every browser session opened so far
    cur,          \* the caller running synchronously, 0 at await points
    pc,           \* position of each caller in scrape_url
    attempt,      \* local `attempt`
    url,          \* argument `url`
    page,         \* local `page` (Pyppeteer): the session it belongs to
    content,      \* local `content`
    exc,          \* the exception `e` bound by the inner handler
    result,       \* the value returned by the last scrape_url call
    navLog,       \* history: backend and session of every attempt that ran
    emptyAt,      \* history: attempt whose extraction was empty, -1 if none
    startedWith,  \* history: self.browser when the call started, -1 before
    resp,         \* history: the completion the language model returned
    llmCalls,     \* history: completion calls made by the current call
    docs,         \* the objects of the MaritimeArticle collection
    reply,        \* the last request to a route and what it was answered
    pageHtml,     \* the document extract_main_content is given
    extracted,    \* what extract_main_content returned for it
    expc          \* position of that extract_main_content call

scraperVars ==
    <<callers, urls, browser, sessions, cur, pc, attempt, url, page, content,
      exc, result, navLog, emptyAt, startedWith, resp, llmCalls>>

routeVars == <<docs, reply>>

extractVars == <<pageHtml, extracted, expc>>

vars == <<scraperVars, routeVars, extractVars>>

-----------------------------------------------------------------------------
(* Program constants and bounds *)

retry_count == 2

MinContentLen == 200

NCallers == 2

MaxDocs == 2

MaxElems == 2

CallerIds == 1..NCallers

-----------------------------------------------------------------------------
(* Text.  A string is a sequence of tokens; a word token stands for a run  *)
(* of that many non-blank characters, "sp" and "nl" are one blank each.    *)

TokLen(t) ==
    CASE t = "w1" -> 1
      [] t = "w99" -> 99
      [] t = "w100" -> 100
      [] OTHER -> 1

IsSpace(t) == t \in {"sp", "nl"}

RECURSIVE StrLen(_)
StrLen(s) == IF s = <<>> THEN 0 ELSE TokLen(Head(s)) + StrLen(Tail(s))

SetMin(S) == CHOOSE x \in S : \A y \in S : x <= y

SetMax(S) == CHOOSE x \in S : \A y \in S : x >= y

\* str.strip()
Strip(s) ==
    LET idx == {i \in DOMAIN s : ~IsSpace(s[i])}
    IN  IF idx = {} THEN <<>> ELSE SubSeq(s, SetMin(idx), SetMax(idx))

\* str.split(): the maximal runs of non-blank characters
RECURSIVE SplitAcc(_, _, _)
SplitAcc(s, word, acc) ==
    IF s = <<>>
    THEN IF word = <<>> THEN acc ELSE Append(acc, word)
    ELSE IF IsSpace(Head(s))
         THEN SplitAcc(Tail(s), <<>>, IF word = <<>> THEN acc ELSE Append(acc, word))
         ELSE SplitAcc(Tail(s), Append(word, Head(s)), acc)

Split(s) == SplitAcc(s, <<>>, <<>>)

\* ' '.join(parts)
RECURSIVE Join(_)
Join(parts) ==
    IF parts = <<>> THEN <<>>
    ELSE IF Len(parts) = 1 THEN parts[1]
    ELSE parts[1] \o <<"sp">> \o Join(Tail(parts))

-----------------------------------------------------------------------------
(* Pages.  A parsed document is a sequence of elements [tag, text].        *)

Elem(t, s) == [tag |-> t, text |-> s]

Pages ==
    << \* one paragraph, exactly 200 characters once cleaned
       << Elem("p", <<"w100", "sp", "w99">>) >>,
       \* 199 characters once the blank run is collapsed
       << Elem("p", <<"w99", "sp", "nl", "sp", "w99">>) >>,
       \* the long text sits in a <nav>, the article is one character
       << Elem("nav", <<"w100", "sp", "w100">>), Elem("p", <<"w1">>) >>,
       \* two paragraphs around a script, 201 characters once cleaned
       << Elem("p", <<"nl", "w100">>), Elem("script", <<"w100">>),
          Elem("p", <<"sp", "w100", "sp", "sp">>) >> >>

Urls == DOMAIN Pages

RemovedTags == {"style", "script", "header", "footer", "nav", "aside"}

\* element.decompose() for every element found by soup.find_all([...])
Decompose(html) == SelectSeq(html, LAMBDA e : e.tag \notin RemovedTags)

\* soup.get_text(separator=' ', strip=True): every string stripped, the
\* empty ones dropped, the rest joined by one blank.  BeautifulSoup does
\* not count the contents of <script> and <style> as text of the document.
RECURSIVE Strings(_)
Strings(soup) ==
    IF soup = <<>> THEN <<>>
    ELSE LET e == Head(soup)
             s == Strip(e.text)
         IN  IF e.tag \in {"script", "style"} \/ s = <<>>
             THEN Strings(Tail(soup))
             ELSE <<s>> \o Strings(Tail(soup))

get_text(soup) == Join(Strings(soup))

\* browser.page_source / page.content(): the markup itself
RECURSIVE page_source(_)
page_source(html) ==
    IF html = <<>> THEN <<>>
    ELSE <<"<" \o Head(html).tag \o ">">> \o Head(html).text
         \o <<"</" \o Head(html).tag \o ">">> \o page_source(Tail(html))

\* extract_main_content with the length test written `<=`
extract_main_content_Le(doc) ==
    LET soup == Decompose(doc)
        text == Join(Split(get_text(soup)))
    IN  IF StrLen(text) <= MinContentLen THEN <<>> ELSE text

\* extract_main_content, the part after page.content() returned
extract_main_content(doc) ==
    LET soup == Decompose(doc)
        text == Join(Split(get_text(soup)))
    IN  IF StrLen(text) < MinContentLen THEN <<>> ELSE text

-----------------------------------------------------------------------------
(* Values returned by scrape_url and process_with_llm *)

MetaFields == {"source_url", "title", "main_topics", "key_events", "author",
               "locations", "publication_date", "maritime_terms",
               "content_type", "last_verified"}

NoMeta == [f \in MetaFields |-> "-"]

\* the metadata of the fallback structure
DefaultMetadata(u) ==
    [f \in MetaFields |->
        CASE f = "source_url" -> ToString(u)
          [] f \in {"title", "author"} -> "Unknown"
          [] f = "content_type" -> "maritime_article"
          [] f = "last_verified" -> "today"
          [] OTHER -> ""]

\* metadata written by the language model
LlmMetadata == [f \in MetaFields |-> "llm"]

\* Python value: `type` is its type, `keys` what `in` finds in it
Value(t, ks, txt, meta, err) ==
    [type |-> t, keys |-> ks, text |-> txt, metadata |-> meta, error |-> err]

NoneValue == Value("none", {}, <<>>, NoMeta, "")

ErrorResult(m) == Value("object", {"error"}, <<>>, NoMeta, m)

DefaultStructure(text, u) ==
    Value("object", {"text", "metadata"}, text, DefaultMetadata(u), "")

\* what the completion endpoint can answer
LLMResponses ==
    {[kind |-> k, keys |-> {}, echo |-> FALSE] :
        k \in {"transport_error", "not_json", "number", "null"}}
    \cup {[kind |-> k, keys |-> {"text", "metadata"}, echo |-> FALSE] :
        k \in {"string", "list"}}
    \cup {[kind |-> "object", keys |-> ks, echo |-> FALSE] :
        ks \in {{}, {"text"}, {"metadata"}, {"text", "metadata"},
                {"text", "metadata", "error"}}}
    \cup {[kind |-> "object", keys |-> {"text", "metadata"}, echo |-> TRUE]}

NoResp == [kind |-> "none", keys |-> {}, echo |-> FALSE]

\* json.loads(result) for a completion that is JSON
ParsedJson(r, text) ==
    Value(r.kind, r.keys,
          IF r.kind = "object" /\ "text" \in r.keys
          THEN (IF r.echo THEN text ELSE <<"llm">>) ELSE <<>>,
          IF r.kind = "object" /\ "metadata" \in r.keys
          THEN LlmMetadata ELSE NoMeta,
          IF r.kind = "object" /\ "error" \in r.keys THEN "llm_error" ELSE "")

process_with_llm(text, u, r) ==
    IF r.kind = "transport_error"
    THEN ErrorResult("completion failed")
    ELSE IF r.kind = "not_json"
    THEN DefaultStructure(text, u)
    ELSE IF r.kind \in {"number", "null"}
    THEN ErrorResult("argument is not iterable")
    ELSE IF "text" \in r.keys /\ "metadata" \in r.keys
    THEN ParsedJson(r, text)
    ELSE DefaultStructure(text, u)

-----------------------------------------------------------------------------
(* Sessions *)

\* `recleaned`: cleanup called close/quit on it after it was released
Session(k, c) ==
    [kind |-> k, alive |-> TRUE, owner |-> c, recleaned |-> FALSE]

IsChrome(b) == b # 0 /\ sessions[b].kind = "selenium"

Alive(b) == b # 0 /\ sessions[b].alive

Release(b) == [sessions EXCEPT ![b].alive = FALSE]

InCall(c) == pc[c] \notin {"idle", "done"}

-----------------------------------------------------------------------------
(* The routes of routes.py and the collaborators they call *)

\* request.url / request.query
RouteInputs == {"", "a", "b"}

\* what openai.embeddings.create does: a vector, a response without data,
\* an openai.OpenAIError, or another exception
EmbedOutcomes == {"ok", "empty", "openai_error", "other_error"}

\* what store.store_documents / store.search_similar does
StoreOutcomes == {"ok", "raise"}

\* the properties store_documents builds from the document of the route
Properties(u) ==
    [title |-> "Scraped Document",
     content |-> "THIS IS THE CONTENT OF DOCUMENT 4",
     url |-> u]

\* one handled request: the collaborators called (`io`) and how they
\* behaved, the HTTP status and detail, the collection before the request
Reply(ep, inp, eo, so, st, det, calls) ==
    [endpoint |-> ep, input |-> inp, embed |-> eo, store |-> so,
     status |-> st, detail |-> det, io |-> calls, before |-> docs]

NoReply ==
    [endpoint |-> "none", input |-> "", embed |-> "none", store |-> "none",
     status |-> 0, detail |-> "", io |-> <<>>, before |-> <<>>]

-----------------------------------------------------------------------------
(* Initial state: WebScraper.__init__ *)

InitWith(cs, us) ==
    /\ callers = cs
    /\ urls = us
    /\ browser = 0
    /\ sessions = <<>>
    /\ cur = 0
    /\ pc = [c \in CallerIds |-> "idle"]
    /\ attempt = [c \in CallerIds |-> 0]
    /\ url = [c \in CallerIds |-> 1]
    /\ page = [c \in CallerIds |-> 0]
    /\ content = [c \in CallerIds |-> <<>>]
    /\ exc = [c \in CallerIds |-> ""]
    /\ result = [c \in CallerIds |-> NoneValue]
    /\ navLog = [c \in CallerIds |-> <<>>]
    /\ emptyAt = [c \in CallerIds |-> -1]
    /\ startedWith = [c \in CallerIds |-> -1]
    /\ resp = [c \in CallerIds |-> NoResp]
    /\ llmCalls = [c \in CallerIds |-> 0]

\* no request was handled yet and the collection is empty
RoutesInit ==
    /\ docs = <<>>
    /\ reply = NoReply

\* no separate extract_main_content call is under way
ExtractIdle ==
    /\ pageHtml = <<>>
    /\ extracted = <<>>
    /\ expc = "idle"

Init == InitWith({1}, Urls) /\ RoutesInit /\ ExtractIdle

\* two tasks on the shared scraper; what they share is the browser handle,
\* not the page, so they ask for one long and one short page
ConcUrls == {1, 2}

InitConc == InitWith(CallerIds, ConcUrls) /\ RoutesInit /\ ExtractIdle

-----------------------------------------------------------------------------
(* scrape_url *)

hist == <<navLog, emptyAt, startedWith, resp, llmCalls>>

\* `return r`
Return(c, r) ==
    /\ pc' = [pc EXCEPT ![c] = "done"]
    /\ result' = [result EXCEPT ![c] = r]
    /\ cur' = 0

\* an exception reaches the inner handler
Raise(c, m) ==
    /\ pc' = [pc EXCEPT ![c] = "except"]
    /\ exc' = [exc EXCEPT ![c] = m]
    /\ cur' = c

\* scrape_url(url) is called: retry_count = 2, attempt = 0
Call(c, u) ==
    /\ cur = 0
    /\ pc[c] \in {"idle", "done"}
    /\ pc' = [pc EXCEPT ![c] = "loop"]
    /\ cur' = c
    /\ attempt' = [attempt EXCEPT ![c] = 0]
    /\ url' = [url EXCEPT ![c] = u]
    /\ page' = [page EXCEPT ![c] = 0]
    /\ content' = [content EXCEPT ![c] = <<>>]
    /\ exc' = [exc EXCEPT ![c] = ""]
    /\ result' = [result EXCEPT ![c] = NoneValue]
    /\ navLog' = [navLog EXCEPT ![c] = <<>>]
    /\ emptyAt' = [emptyAt EXCEPT ![c] = -1]
    /\ startedWith' = [startedWith EXCEPT ![c] = browser]
    /\ resp' = [resp EXCEPT ![c] = NoResp]
    /\ llmCalls' = [llmCalls EXCEPT ![c] = 0]
    /\ UNCHANGED <<routeVars, extractVars>>
    /\ UNCHANGED <<callers, urls, browser, sessions>>

\* `while attempt < retry_count:` and `if not self.browser:`
LoopTop(c) ==
    /\ cur = c
    /\ pc[c] = "loop"
    /\ IF attempt[c] >= retry_count
       THEN \* the loop ends and the function falls off its end
            /\ Return(c, NoneValue)
            /\ UNCHANGED <<browser, sessions, exc>>
       ELSE IF browser # 0
       THEN /\ pc' = [pc EXCEPT ![c] = "branch"]
            /\ UNCHANGED <<browser, sessions, exc, result, cur>>
       ELSE IF attempt[c] = 0
       THEN \* await self.initialize_pyppeteer()
            /\ pc' = [pc EXCEPT ![c] = "launch"]
            /\ cur' = 0
            /\ UNCHANGED <<browser, sessions, exc, result>>
       ELSE \* self.initialize_selenium()
            \/ /\ sessions' = Append(sessions, Session("selenium", c))
               /\ browser' = Len(sessions) + 1
               /\ pc' = [pc EXCEPT ![c] = "branch"]
               /\ UNCHANGED <<exc, result, cur>>
            \/ /\ Raise(c, "selenium init failed")
               /\ UNCHANGED <<browser, sessions, result>>
    /\ UNCHANGED <<routeVars, extractVars>>
    /\ UNCHANGED <<callers, urls, attempt, url, page, content, hist>>

\* initialize_pyppeteer: launch(...) completes
LaunchResume(c) ==
    /\ cur = 0
    /\ pc[c] = "launch"
    /\ \/ /\ sessions' = Append(sessions, Session("pyppeteer", c))
          /\ browser' = Len(sessions) + 1
          /\ pc' = [pc EXCEPT ![c] = "branch"]
          /\ cur' = c
          /\ UNCHANGED exc
       \/ /\ Raise(c, "launch failed")
          /\ UNCHANGED <<browser, sessions>>
    /\ UNCHANGED <<routeVars, extractVars>>
    /\ UNCHANGED <<callers, urls, attempt, url, page, content, result, hist>>

\* `if isinstance(self.browser, webdriver.Chrome):`
Branch(c) ==
    /\ cur = c
    /\ pc[c] = "branch"
    /\ navLog' = [navLog EXCEPT ![c] = Append(@,
            [attempt |-> attempt[c], backend |-> sessions[browser].kind,
             session |-> browser])]
    /\ IF IsChrome(browser)
       THEN /\ pc' = [pc EXCEPT ![c] = "get"]
            /\ UNCHANGED <<cur, page>>
       ELSE \* page = await self.browser.newPage()
            /\ pc' = [pc EXCEPT ![c] = "newPage"]
            /\ page' = [page EXCEPT ![c] = browser]
            /\ cur' = 0
    /\ UNCHANGED <<routeVars, extractVars>>
    /\ UNCHANGED <<callers, urls, browser, sessions, attempt, url, content, exc,
                   result, emptyAt, startedWith, resp, llmCalls>>

\* the Selenium branch: get, page_source, get_text, length test
SeleniumGet(c) ==
    /\ cur = c
    /\ pc[c] = "get"
    /\ \/ /\ Raise(c, "get failed")
          /\ UNCHANGED <<content, result, emptyAt>>
       \/ /\ Alive(browser)
          /\ LET html == Pages[url[c]]
                 text == get_text(html)
             IN  /\ content' = [content EXCEPT ![c] = page_source(html)]
                 /\ IF StrLen(text) < MinContentLen
                    THEN /\ Return(c, ErrorResult("No content extracted"))
                         /\ emptyAt' = [emptyAt EXCEPT ![c] = attempt[c]]
                    ELSE /\ pc' = [pc EXCEPT ![c] = "llm"]
                         /\ UNCHANGED <<result, cur, emptyAt>>
          /\ UNCHANGED exc
    /\ UNCHANGED <<routeVars, extractVars>>
    /\ UNCHANGED <<callers, urls, browser, sessions, attempt, url, page, navLog,
                   startedWith, resp, llmCalls>>

\* newPage() completes; await page.goto(url, ...)
NewPageResume(c) ==
    /\ cur = 0
    /\ pc[c] = "newPage"
    /\ \/ Raise(c, "newPage failed")
       \/ /\ Alive(page[c])
          /\ pc' = [pc EXCEPT ![c] = "goto"]
          /\ UNCHANGED <<exc, cur>>
    /\ UNCHANGED <<routeVars, extractVars>>
    /\ UNCHANGED <<callers, urls, browser, sessions, attempt, url, page, content,
                   result, hist>>

\* goto completes; extract_main_content awaits page.content()
GotoResume(c) ==
    /\ cur = 0
    /\ pc[c] = "goto"
    /\ \/ Raise(c, "goto failed")
       \/ /\ Alive(page[c])
          /\ pc' = [pc EXCEPT ![c] = "content"]
          /\ UNCHANGED <<exc, cur>>
    /\ UNCHANGED <<routeVars, extractVars>>
    /\ UNCHANGED <<callers, urls, browser, sessions, attempt, url, page, content,
                   result, hist>>

\* ContentResume with empty content raised into the retry handler
ContentResume_Retry(c) ==
    /\ cur = 0
    /\ pc[c] = "content"
    /\ \E failed \in {TRUE, FALSE} :
          /\ ~failed => Alive(page[c])
          /\ LET text == IF failed THEN <<>>
                         ELSE extract_main_content(Pages[url[c]])
             IN  /\ content' = [content EXCEPT ![c] = text]
                 /\ IF text = <<>>
                    THEN /\ Raise(c, "No content extracted")
                         /\ emptyAt' = [emptyAt EXCEPT ![c] = attempt[c]]
                         /\ UNCHANGED result
                    ELSE /\ pc' = [pc EXCEPT ![c] = "pageClose"]
                         /\ UNCHANGED <<result, cur, emptyAt, exc>>
    /\ UNCHANGED <<routeVars, extractVars>>
    /\ UNCHANGED <<callers, urls, browser, sessions, attempt, url, page,
                   navLog, startedWith, resp, llmCalls>>

\* page.content() completes, the rest of extract_main_content,
\* `if not content: return {"error": ...}`, await page.close()
ContentResume(c) ==
    /\ cur = 0
    /\ pc[c] = "content"
    /\ \E failed \in {TRUE, FALSE} :
          /\ ~failed => Alive(page[c])
          /\ LET text == IF failed THEN <<>>
                         ELSE extract_main_content(Pages[url[c]])
             IN  /\ content' = [content EXCEPT ![c] = text]
                 /\ IF text = <<>>
                    THEN /\ Return(c, ErrorResult("No content extracted"))
                         /\ emptyAt' = [emptyAt EXCEPT ![c] = attempt[c]]
                    ELSE /\ pc' = [pc EXCEPT ![c] = "pageClose"]
                         /\ UNCHANGED <<result, cur, emptyAt>>
    /\ UNCHANGED <<routeVars, extractVars>>
    /\ UNCHANGED <<callers, urls, browser, sessions, attempt, url, page, exc,
                   navLog, startedWith, resp, llmCalls>>

\* page.close() completes
PageCloseResume(c) ==
    /\ cur = 0
    /\ pc[c] = "pageClose"
    /\ \/ Raise(c, "page close failed")
       \/ /\ pc' = [pc EXCEPT ![c] = "llm"]
          /\ cur' = c
          /\ UNCHANGED exc
    /\ UNCHANGED <<routeVars, extractVars>>
    /\ UNCHANGED <<callers, urls, browser, sessions, attempt, url, page, content,
                   result, hist>>

\* ProcessWithLLM with a failed completion raised into the retry handler
ProcessWithLLM_Retry(c, r) ==
    /\ cur = c
    /\ pc[c] = "llm"
    /\ resp' = [resp EXCEPT ![c] = r]
    /\ llmCalls' = [llmCalls EXCEPT ![c] = @ + 1]
    /\ IF r.kind = "transport_error"
       THEN /\ Raise(c, "completion failed")
            /\ UNCHANGED result
       ELSE /\ Return(c, process_with_llm(content[c], url[c], r))
            /\ UNCHANGED exc
    /\ UNCHANGED <<routeVars, extractVars>>
    /\ UNCHANGED <<callers, urls, browser, sessions, attempt, url, page,
                   content, navLog, emptyAt, startedWith>>

\* result = await self.process_with_llm(content, url); return result
ProcessWithLLM(c, r) ==
    /\ cur = c
    /\ pc[c] = "llm"
    /\ resp' = [resp EXCEPT ![c] = r]
    /\ llmCalls' = [llmCalls EXCEPT ![c] = @ + 1]
    /\ Return(c, process_with_llm(content[c], url[c], r))
    /\ UNCHANGED <<routeVars, extractVars>>
    /\ UNCHANGED <<callers, urls, browser, sessions, attempt, url, page, content,
                   exc, navLog, emptyAt, startedWith>>

\* Except with the bound test off by one (`attempt > retry_count`)
Except_OffByOne(c) ==
    /\ cur = c
    /\ pc[c] = "except"
    /\ attempt' = [attempt EXCEPT ![c] = @ + 1]
    /\ sessions' = IF IsChrome(browser) THEN Release(browser) ELSE sessions
    /\ \/ /\ IsChrome(browser)
          /\ Return(c, ErrorResult("quit failed"))
       \/ IF attempt[c] + 1 > retry_count
          THEN Return(c, ErrorResult(exc[c]))
          ELSE /\ pc' = [pc EXCEPT ![c] = "loop"]
               /\ UNCHANGED <<result, cur>>
    /\ UNCHANGED <<routeVars, extractVars>>
    /\ UNCHANGED <<callers, urls, browser, url, page, content, exc, hist>>

\* `except Exception as e:` of the loop body, and the outer handler that
\* catches what browser.quit() raises
Except(c) ==
    /\ cur = c
    /\ pc[c] = "except"
    /\ attempt' = [attempt EXCEPT ![c] = @ + 1]
    /\ sessions' = IF IsChrome(browser) THEN Release(browser) ELSE sessions
    /\ \/ /\ IsChrome(browser)
          /\ Return(c, ErrorResult("quit failed"))
       \/ IF attempt[c] + 1 = retry_count
          THEN Return(c, ErrorResult(exc[c]))
          ELSE /\ pc' = [pc EXCEPT ![c] = "loop"]
               /\ UNCHANGED <<result, cur>>
    /\ UNCHANGED <<routeVars, extractVars>>
    /\ UNCHANGED <<callers, urls, browser, url, page, content, exc, hist>>

-----------------------------------------------------------------------------
(* cleanup *)

\* `if self.browser:` then quit() or close(), whatever state the session
\* is in; self.browser keeps its value
Cleanup(c) ==
    /\ cur = 0
    /\ pc[c] \in {"idle", "done"}
    /\ sessions' = IF browser = 0 THEN sessions
                   ELSE [sessions EXCEPT ![browser].alive = FALSE,
                                         ![browser].recleaned =
                                             @ \/ ~sessions[browser].alive]
    /\ UNCHANGED <<routeVars, extractVars>>
    /\ UNCHANGED <<callers, urls, browser, cur, pc, attempt, url, page, content,
                   exc, result, hist>>

-----------------------------------------------------------------------------

\* one step of a call in progress
Step(c) ==
    \/ LoopTop(c)
    \/ LaunchResume(c)
    \/ Branch(c)
    \/ SeleniumGet(c)
    \/ NewPageResume(c)
    \/ GotoResume(c)
    \/ ContentResume(c)
    \/ PageCloseResume(c)
    \/ \E r \in LLMResponses : ProcessWithLLM(c, r)
    \/ Except(c)

Next ==
    \/ \E c \in callers, u \in urls : Call(c, u)
    \/ \E c \in callers : LoopTop(c)
    \/ \E c \in callers : LaunchResume(c)
    \/ \E c \in callers : Branch(c)
    \/ \E c \in callers : SeleniumGet(c)
    \/ \E c \in callers : NewPageResume(c)
    \/ \E c \in callers : GotoResume(c)
    \/ \E c \in callers : ContentResume(c)
    \/ \E c \in callers : PageCloseResume(c)
    \/ \E c \in callers, r \in LLMResponses : ProcessWithLLM(c, r)
    \/ \E c \in callers : Except(c)
    \/ \E c \in callers : Cleanup(c)

Spec == Init /\ [][Next]_vars

SpecConc == InitConc /\ [][Next]_vars

FairSpec == Init /\ [][Next]_vars /\ WF_vars(\E c \in callers : Step(c))

-----------------------------------------------------------------------------
(* POST /create-document and POST /perform-search.  Neither handler awaits, *)
(* so each runs as one step.                                                *)

\* create_document with the OpenAIError of the embedding call swallowed
CreateDocument_Swallow(u, eo, so) ==
    /\ IF u = ""
       THEN /\ reply' = Reply("create", u, "none", "none", 400,
                              "URL is required", <<>>)
            /\ UNCHANGED docs
       ELSE IF eo = "empty"
       THEN /\ reply' = Reply("create", u, eo, "none", 500,
                              "Failed to generate embeddings", <<"embed">>)
            /\ UNCHANGED docs
       ELSE IF eo = "other_error"
       THEN /\ reply' = Reply("create", u, eo, "none", 500,
                              "embedding call failed", <<"embed">>)
            /\ UNCHANGED docs
       ELSE IF so = "raise"
       THEN /\ reply' = Reply("create", u, eo, so, 500,
                              "store failed", <<"embed", "insert">>)
            /\ UNCHANGED docs
       ELSE /\ Len(docs) < MaxDocs
            /\ docs' = Append(docs, Properties(u))
            /\ reply' = Reply("create", u, eo, so, 200,
                              "Document created and stored successfully!",
                              <<"embed", "insert">>)
    /\ UNCHANGED <<scraperVars, extractVars>>

\* create_document: the scrape is commented out, the text is a fixed string
CreateDocument(u, eo, so) ==
    /\ IF u = ""
       THEN \* HTTPException(400), re-raised by `except HTTPException`
            /\ reply' = Reply("create", u, "none", "none", 400,
                              "URL is required", <<>>)
            /\ UNCHANGED docs
       ELSE IF eo = "openai_error"
       THEN /\ reply' = Reply("create", u, eo, "none", 500,
                              "Error generating embeddings", <<"embed">>)
            /\ UNCHANGED docs
       ELSE IF eo = "empty"
       THEN \* HTTPException(500), not an OpenAIError, re-raised
            /\ reply' = Reply("create", u, eo, "none", 500,
                              "Failed to generate embeddings", <<"embed">>)
            /\ UNCHANGED docs
       ELSE IF eo = "other_error"
       THEN \* caught by `except Exception`, detail=str(e)
            /\ reply' = Reply("create", u, eo, "none", 500,
                              "embedding call failed", <<"embed">>)
            /\ UNCHANGED docs
       ELSE IF so = "raise"
       THEN \* store_documents logs and re-raises, `except Exception`
            /\ reply' = Reply("create", u, eo, so, 500,
                              "store failed", <<"embed", "insert">>)
            /\ UNCHANGED docs
       ELSE /\ Len(docs) < MaxDocs
            /\ docs' = Append(docs, Properties(u))
            /\ reply' = Reply("create", u, eo, so, 200,
                              "Document created and stored successfully!",
                              <<"embed", "insert">>)
    /\ UNCHANGED <<scraperVars, extractVars>>

\* perform_search: `except Exception` also catches the HTTPExceptions the
\* handler raises itself and answers them with status 500
PerformSearch(q, eo, so) ==
    /\ IF q = ""
       THEN reply' = Reply("search", q, "none", "none", 500,
                           "400: Search query is required", <<>>)
       ELSE IF eo = "openai_error"
       THEN reply' = Reply("search", q, eo, "none", 500,
                           "Error generating search embeddings", <<"embed">>)
       ELSE IF eo = "empty"
       THEN reply' = Reply("search", q, eo, "none", 500,
                           "500: Failed to generate query embeddings",
                           <<"embed">>)
       ELSE IF eo = "other_error"
       THEN reply' = Reply("search", q, eo, "none", 500,
                           "embedding call failed", <<"embed">>)
       ELSE IF so = "raise"
       THEN reply' = Reply("search", q, eo, so, 500,
                           "search failed", <<"embed", "search">>)
       ELSE reply' = Reply("search", q, eo, so, 200, "results",
                           <<"embed", "search">>)
    /\ UNCHANGED <<docs, scraperVars, extractVars>>

NextRoutes ==
    \/ \E u \in RouteInputs, eo \in EmbedOutcomes, so \in StoreOutcomes :
          CreateDocument(u, eo, so)
    \/ \E q \in RouteInputs, eo \in EmbedOutcomes, so \in StoreOutcomes :
          PerformSearch(q, eo, so)

\* the routes alone: the scraper is constructed (routes.py:19) but not called
InitRoutes == InitWith({}, {}) /\ RoutesInit /\ ExtractIdle

SpecRoutes == InitRoutes /\ [][NextRoutes]_vars

-----------------------------------------------------------------------------
(* extract_main_content on its own, for every small document *)

GenTexts ==
    { <<"w100">>, <<"w99">>, <<"w1">>, <<"sp">>,
      <<"w100", "sp", "w99">>, <<"nl", "w99", "sp", "sp">> }

GenElems == {Elem(t, s) : t \in {"p", "nav", "script"}, s \in GenTexts}

GenPages == UNION {[1..n -> GenElems] : n \in 1..MaxElems}

\* page.content() raises (the handler of line 85 returns "") or returns the
\* markup, which is then cleaned and measured
ExtractMainContent ==
    /\ expc = "ready"
    /\ \/ /\ expc' = "failed"
          /\ extracted' = <<>>
       \/ /\ expc' = "returned"
          /\ extracted' = extract_main_content(pageHtml)
    /\ UNCHANGED <<pageHtml, scraperVars, routeVars>>

NextExtract == ExtractMainContent

InitExtract ==
    /\ InitWith({}, {})
    /\ RoutesInit
    /\ pageHtml \in GenPages
    /\ extracted = <<>>
    /\ expc = "ready"

SpecExtract == InitExtract /\ [][NextExtract]_vars

-----------------------------------------------------------------------------
(* Claims *)

LastNav(c) == navLog[c][Len(navLog[c])]

\* C1: when attempt 0 runs on Pyppeteer and fails with an exception, attempt 1
\* runs on Selenium: the backend of an attempt depends on its index alone.
C1_BackendByAttemptIndex ==
    \A c \in CallerIds : \A i \in DOMAIN navLog[c] :
        (navLog[c][1].attempt = 0 /\ navLog[c][1].backend = "pyppeteer"
            /\ navLog[c][i].attempt = 1)
        => navLog[c][i].backend = "selenium"

C3_SessionReleasedOnReturn ==
    \A c \in CallerIds :
        pc[c] = "done" =>
            \A i \in DOMAIN navLog[c] : ~sessions[navLog[c][i].session].alive

\* C4: at the start of every scrape_url call self.browser is unset, whatever
\* calls came before.
C4_NoSessionSurvives ==
    \A c \in CallerIds : startedWith[c] \in {-1, 0}

\* C5: when two calls interleave at their awaits, every session that is still
\* open is the one self.browser refers to (none is overwritten and lost), and
\* no call navigates with a session opened by the other call in progress.
C5_IndependentSessions ==
    /\ \A s \in DOMAIN sessions : sessions[s].alive => browser = s
    /\ \A c, d \in CallerIds :
        (c # d /\ InCall(c) /\ InCall(d) /\ startedWith[d] = 0) =>
            \A i \in DOMAIN navLog[c] :
                sessions[navLog[c][i].session].owner # d

\* C6: a call makes at most 2 attempts, starts at most 2 navigations, never
\* falls off the loop without a result, and every call that started returns.
C6_BoundedAttempts ==
    /\ [](\A c \in CallerIds :
            /\ attempt[c] <= 2
            /\ Len(navLog[c]) <= 2
            /\ (pc[c] = "done" => result[c] # NoneValue))
    /\ \A c \in CallerIds : InCall(c) ~> (pc[c] = "done")

C6_Witness ==
    \E c \in CallerIds :
        pc[c] = "done" /\ attempt[c] = 2 /\ Len(navLog[c]) = 2

\* C7: when both attempts fail with an exception the call returns {error: m}
\* with m the message of the exception of the last attempt.
C7_ExhaustedReturnsLastError ==
    \A c \in CallerIds :
        (pc[c] = "done" /\ attempt[c] = retry_count)
        => result[c] = ErrorResult(exc[c])

\* C8: every value scrape_url returns is an object that either has `error`
\* and no `text`, or has `text` and `metadata` and no `error`.
C8_TaggedUnion ==
    \A c \in CallerIds :
        pc[c] = "done" =>
            /\ result[c].type = "object"
            /\ \/ "error" \in result[c].keys /\ "text" \notin result[c].keys
               \/ /\ {"text", "metadata"} \subseteq result[c].keys
                  /\ "error" \notin result[c].keys

\* C9: when Pyppeteer fails and Selenium then succeeds, the text handed to the
\* summarizer is the tag-stripped, whitespace-collapsed text the Pyppeteer
\* path hands over for the same page.
C9_FallbackTransparency ==
    \A c \in CallerIds :
        (pc[c] = "done" /\ resp[c] # NoResp /\ LastNav(c).backend = "selenium")
        => content[c] = extract_main_content(Pages[url[c]])

\* C10: process_with_llm returns the default structure whenever the completion
\* is not JSON, is a JSON value that is not an object, or is an object without
\* a top-level `text` or `metadata` key.
C10_DefaultOnUnusableResponse ==
    \A c \in CallerIds :
        (/\ pc[c] = "done"
         /\ \/ resp[c].kind \in {"not_json", "number", "null", "string", "list"}
            \/ /\ resp[c].kind = "object"
               /\ ~({"text", "metadata"} \subseteq resp[c].keys))
        => result[c] = DefaultStructure(content[c], url[c])

\* C11: the completion endpoint is called at most once per scrape_url call;
\* the call returns right after it, without another attempt, and a transport
\* failure gives an {error} result.
C11_SingleCompletionCall ==
    \A c \in CallerIds :
        /\ llmCalls[c] <= 1
        /\ llmCalls[c] = 1 =>
            /\ pc[c] = "done"
            /\ LastNav(c).attempt = attempt[c]
        /\ resp[c].kind = "transport_error" =>
            result[c] = ErrorResult("completion failed")

C11_Witness ==
    \E c \in CallerIds :
        /\ pc[c] = "done"
        /\ llmCalls[c] = 1
        /\ resp[c].kind = "transport_error"

\* C14: a second cleanup does not invoke close/quit again on a session that
\* is already released.
C14_CleanupIdempotent ==
    \A s \in DOMAIN sessions : ~sessions[s].recleaned

\* the text the extractor of the attempt's backend produced for the page
ExtractorText(c) ==
    IF LastNav(c).backend = "selenium"
    THEN get_text(Pages[url[c]])
    ELSE extract_main_content(Pages[url[c]])

\* C15: the `text` of a successful result is the text the extractor produced
\* for the page.
C15_TextIsExtractedText ==
    \A c \in CallerIds :
        (/\ pc[c] = "done"
         /\ result[c].type = "object"
         /\ "text" \in result[c].keys
         /\ "error" \notin result[c].keys)
        => result[c].text = ExtractorText(c)

\* C17: an error raised while closing the session of a failed attempt is
\* swallowed: after one failed attempt the call goes on to attempt 1, and
\* after two the error returned is the one of the attempt itself.
C17_CloseErrorSwallowed ==
    \A c \in CallerIds :
        pc[c] = "done" =>
            /\ attempt[c] = 1 => (navLog[c] # <<>> /\ LastNav(c).attempt = 1)
            /\ attempt[c] = retry_count => result[c].error = exc[c]

\* C18: scrape_url never navigates (Selenium get, Pyppeteer newPage) on a
\* session that was already quit or closed.
C18_NoNavigationOnReleased ==
    \A c \in CallerIds :
        /\ pc[c] = "get" => Alive(browser)
        /\ pc[c] = "newPage" => Alive(page[c])

\* C12: on both routes a request with an empty url or query is answered with
\* HTTP 400 and calls neither the embedding provider nor the vector store.
C12_EmptyInputRejected ==
    (reply.endpoint # "none" /\ reply.input = "") =>
        (reply.status = 400 /\ reply.io = <<>>)

Count(seq, x) == Cardinality({i \in DOMAIN seq : seq[i] = x})

\* C13: in create_document a failure of the embedding call or of the store
\* insert is answered with HTTP 500, neither call is made twice, and after a
\* failed embedding call no insert is made and the collection is unchanged.
C13_ProviderErrorsSurface ==
    (/\ reply.endpoint = "create"
     /\ reply.embed \in {"empty", "openai_error", "other_error"}
            \/ reply.store = "raise")
    => /\ reply.status = 500
       /\ Count(reply.io, "embed") = 1
       /\ Count(reply.io, "insert") <= 1
       /\ reply.embed # "ok" => (reply.io = <<"embed">> /\ docs = reply.before)

C13_Witness ==
    /\ reply.endpoint = "create"
    /\ reply.embed = "openai_error"
    /\ docs # <<>>

\* the visible text of a document, written without the extractor's steps:
\* the words of the elements that are kept, in order, one blank apart
RECURSIVE VisibleWords(_)
VisibleWords(doc) ==
    IF doc = <<>> THEN <<>>
    ELSE (IF Head(doc).tag \in RemovedTags THEN <<>>
          ELSE Split(Head(doc).text)) \o VisibleWords(Tail(doc))

CleanedText(doc) == Join(VisibleWords(doc))

\* C16 as stated: extract_main_content returns "" exactly when the cleaned
\* text has fewer than 200 characters, and the cleaned text otherwise.
C16_EmptyExactlyWhenShort ==
    expc \in {"returned", "failed"} =>
        /\ (extracted = <<>>) <=> (StrLen(CleanedText(pageHtml)) < 200)
        /\ StrLen(CleanedText(pageHtml)) >= 200 => extracted = CleanedText(pageHtml)

\* C16 as amended: extract_main_content returns "" when the cleaned text has
\* fewer than 200 characters or when reading the page raised, and the cleaned
\* text, unchanged, in every other case (200 characters included).
C16_EmptyWhenShortOrFailed ==
    expc \in {"returned", "failed"} =>
        extracted = IF expc = "failed" \/ StrLen(CleanedText(pageHtml)) < 200
                    THEN <<>> ELSE CleanedText(pageHtml)

C16_Witness ==
    /\ expc = "returned"
    /\ StrLen(CleanedText(pageHtml)) = 200
    /\ extracted = CleanedText(pageHtml)

====
